---- MODULE Spec2Model ----
(***************************************************************************)
(* Model of omnisign-calc.py: a calculator over (magnitude, sign-index)    *)
(* pairs whose set of sign symbols (app.sign_symbols) changes at runtime.  *)
(*                                                                         *)
(* Two specifications share the module:                                    *)
(*   Spec    the Calculator widget: add_sign, remove_sign, compute and the *)
(*           user's selection in the two sign combo boxes;                 *)
(*   FnSpec  the arithmetic functions applied to inputs drawn from bounded *)
(*           sets, with the registry size N = len(app.sign_symbols) given  *)
(*           as an explicit argument.                                      *)
(***************************************************************************)
EXTENDS Integers, Sequences, FiniteSets, TLC

VARIABLES
    sign_symbols,    \* app.sign_symbols: sequence of one-character strings
    a_sign,          \* QComboBox a_sign: [items, cur, enabled]
    b_sign,          \* QComboBox b_sign: [items, cur, enabled]
    remove_enabled,  \* remove_sign_btn.isEnabled()
    result,          \* text of the result QLabel
    outcome,         \* what the last request did (dialog shown, exception)
    alive,           \* the process is still running
    call,            \* FnSpec: the function applied last and its arguments
    ret              \* FnSpec: what that application returned or raised

vars == <<sign_symbols, a_sign, b_sign, remove_enabled, result, outcome,
          alive, call, ret>>

uiVars == <<sign_symbols, a_sign, b_sign, remove_enabled, result, outcome, alive>>
fnVars == <<call, ret>>

(***************************************************************************)
(* Bounds.                                                                 *)
(***************************************************************************)
\* Largest registry size N the functions are applied under (the registry of
\* the Calculator is bounded by the symbols of Chars).
MaxSigns == 3
\* Significand width of the modelled binary floating point (binary64 has
\* 53 bits; the rounding rule, round-half-to-even, is the same).
Precision == 4

(***************************************************************************)
(* Python float: a finite binary floating-point number m * 2^e, kept       *)
(* canonical (m odd, or m = 0 and e = 0), |m| < 2^Precision.  The exponent *)
(* range is not bounded: overflow and underflow are outside the model.     *)
(***************************************************************************)
Abs(n) == IF n < 0 THEN -n ELSE n

Min(x, y) == IF x <= y THEN x ELSE y

RECURSIVE Canon(_, _)
Canon(m, e) ==
    IF m = 0 THEN [m |-> 0, e |-> 0]
    ELSE IF m % 2 = 0 THEN Canon(m \div 2, e + 1)
    ELSE [m |-> m, e |-> e]

RECURSIVE BitLen(_)
BitLen(n) == IF n = 0 THEN 0 ELSE 1 + BitLen(n \div 2)

\* Round m * 2^e to Precision significant bits, ties to even.
RoundP(m, e) ==
    LET a  == Abs(m)
        sh == BitLen(a) - Precision
    IN  IF sh <= 0 THEN Canon(m, e)
        ELSE LET q    == a \div (2 ^ sh)
                 r    == a % (2 ^ sh)
                 half == 2 ^ (sh - 1)
                 q2   == IF r > half \/ (r = half /\ q % 2 = 1) THEN q + 1 ELSE q
             IN  Canon(IF m < 0 THEN -q2 ELSE q2, e + sh)

Zero == [m |-> 0, e |-> 0]
One  == [m |-> 1, e |-> 0]

\* A float that is the result of real exponentiation is kept as the term
\* [pow |-> <<base, exponent>>]; every other float is a number [m, e].
IsNum(x) == "m" \in DOMAIN x

\* x < 0 (a power of a non-negative base is never negative)
IsNeg(x) == IsNum(x) /\ x.m < 0

FNeg(x) == [m |-> -x.m, e |-> x.e]

FAdd(x, y) ==
    LET e == Min(x.e, y.e)
    IN  RoundP(x.m * 2 ^ (x.e - e) + y.m * 2 ^ (y.e - e), e)

FSub(x, y) == FAdd(x, FNeg(y))

FMul(x, y) == RoundP(x.m * y.m, x.e + y.e)

\* x / y for y # 0: the quotient to 2*Precision+1 extra bits, with a sticky
\* bit for the remainder, then rounded once.
FDiv(x, y) ==
    LET g   == 2 * Precision + 1
        n   == Abs(x.m) * 2 ^ g
        q   == n \div Abs(y.m)
        r   == n % Abs(y.m)
        neg == (x.m < 0) # (y.m < 0)
        sg(v) == IF neg THEN -v ELSE v
    IN  IF r = 0 THEN RoundP(sg(q), x.e - y.e - g)
        ELSE RoundP(sg(2 * q + 1), x.e - y.e - g - 1)

\* x >= y
FGe(x, y) ==
    LET e == Min(x.e, y.e)
    IN  x.m * 2 ^ (x.e - e) >= y.m * 2 ^ (y.e - e)

\* k % 2 for a float k >= 0 (exact, as fmod is)
FMod2(k) ==
    IF k.e >= 1 THEN Zero
    ELSE Canon(k.m % (2 ^ (1 - k.e)), k.e)

\* int(k): truncation toward zero
IntOf(k) ==
    IF k.e >= 0 THEN k.m * 2 ^ k.e
    ELSE LET q == Abs(k.m) \div (2 ^ (-k.e)) IN IF k.m < 0 THEN -q ELSE q

\* math.pow(x, k) and x ** k for x >= 0, k >= 0: exact where the result is
\* exact for every base or exponent, a term otherwise.
FPow(x, k) ==
    IF k = Zero THEN One
    ELSE IF k = One THEN x
    ELSE IF x = Zero \/ x = One THEN x
    ELSE [pow |-> <<x, k>>]

(***************************************************************************)
(* SignedNumber and the six operations.  N is len(app.sign_symbols) at the *)
(* time of the call.  A call returns [ok |-> TRUE, mag, s] or raises,      *)
(* [ok |-> FALSE, exc, msg].                                               *)
(***************************************************************************)
Raise(exc, msg) == [ok |-> FALSE, exc |-> exc, msg |-> msg]

\* Variant of SignedNumber: the sign index is validated in unsigned mode too.
SignedNumber_validating(mag, s, N) ==
    IF IsNeg(mag) THEN Raise("ValueError", "Magnitude must be >= 0")
    ELSE IF s < 0 \/ s >= N THEN Raise("ValueError", "Sign index must be between 0 and N-1")
    ELSE [ok |-> TRUE, mag |-> mag, s |-> s]

SignedNumber(mag, s, N) ==
    IF IsNeg(mag) THEN Raise("ValueError", "Magnitude must be >= 0")
    ELSE IF N = 1 THEN [ok |-> TRUE, mag |-> mag, s |-> 0]
    ELSE IF s < 0 \/ s >= N THEN Raise("ValueError", "Sign index must be between 0 and N-1")
    ELSE [ok |-> TRUE, mag |-> mag, s |-> s]

\* x > y
FGt(x, y) ==
    LET e == Min(x.e, y.e)
    IN  x.m * 2 ^ (x.e - e) > y.m * 2 ^ (y.e - e)

\* Variant of add: ">" for ">=", so that equal magnitudes take b's sign.
add_tie_to_b(a, b, N) ==
    IF N = 1 THEN SignedNumber(FAdd(a.mag, b.mag), 0, N)
    ELSE IF a.s = b.s THEN SignedNumber(FAdd(a.mag, b.mag), a.s, N)
    ELSE IF FGt(a.mag, b.mag) THEN SignedNumber(FSub(a.mag, b.mag), a.s, N)
    ELSE SignedNumber(FSub(b.mag, a.mag), b.s, N)

add(a, b, N) ==
    IF N = 1 THEN SignedNumber(FAdd(a.mag, b.mag), 0, N)
    ELSE IF a.s = b.s THEN SignedNumber(FAdd(a.mag, b.mag), a.s, N)
    ELSE IF FGe(a.mag, b.mag) THEN SignedNumber(FSub(a.mag, b.mag), a.s, N)
    ELSE SignedNumber(FSub(b.mag, a.mag), b.s, N)

\* Variant of negate: the group inverse (N - s) mod N.
negate_inverse(b, N) == SignedNumber(b.mag, (N - b.s) % N, N)

\* neg_b of sub
negate(b, N) == SignedNumber(b.mag, (b.s + 1) % N, N)

\* Variant of sub: the unsigned difference taken as |a.mag - b.mag|.
sub_abs(a, b, N) ==
    IF N = 1
    THEN SignedNumber(IF FGe(a.mag, b.mag) THEN FSub(a.mag, b.mag) ELSE FSub(b.mag, a.mag), 0, N)
    ELSE LET neg_b == negate(b, N)
         IN  IF neg_b.ok THEN add(a, neg_b, N) ELSE neg_b

sub(a, b, N) ==
    IF N = 1 THEN SignedNumber(FSub(a.mag, b.mag), 0, N)
    ELSE LET neg_b == negate(b, N)
         IN  IF neg_b.ok THEN add(a, neg_b, N) ELSE neg_b

mult(a, b, N) ==
    IF N = 1 THEN SignedNumber(FMul(a.mag, b.mag), 0, N)
    ELSE SignedNumber(FMul(a.mag, b.mag), (a.s + b.s) % N, N)

\* Variant of div: the sign indices added, as in mult.
div_sign_sum(a, b, N) ==
    IF b.mag = Zero THEN Raise("ZeroDivisionError", "Division by zero")
    ELSE IF N = 1 THEN SignedNumber(FDiv(a.mag, b.mag), 0, N)
    ELSE SignedNumber(FDiv(a.mag, b.mag), (a.s + b.s) % N, N)

\* Variant of div: a zero divisor reported as a ValueError, like the other
\* argument errors.
div_value_error(a, b, N) ==
    IF b.mag = Zero THEN Raise("ValueError", "Division by zero")
    ELSE IF N = 1 THEN SignedNumber(FDiv(a.mag, b.mag), 0, N)
    ELSE SignedNumber(FDiv(a.mag, b.mag), (a.s - b.s) % N, N)

div(a, b, N) ==
    IF b.mag = Zero THEN Raise("ZeroDivisionError", "Division by zero")
    ELSE IF N = 1 THEN SignedNumber(FDiv(a.mag, b.mag), 0, N)
    ELSE SignedNumber(FDiv(a.mag, b.mag), (a.s - b.s) % N, N)

exp_op(a, b, N) ==
    LET k == b.mag
    IN  IF N = 1 THEN SignedNumber(FPow(a.mag, k), 0, N)
        ELSE SignedNumber(FPow(a.mag, k), (a.s * IntOf(k)) % N, N)

\* Variant of root_op: the parity of int(k), as exp_op takes it.
root_op_int_parity(a, b, N) ==
    LET k == b.mag
    IN  IF k = Zero THEN Raise("ValueError", "Root degree must be non-zero")
        ELSE LET root == FPow(a.mag, FDiv(One, k))
             IN  IF N = 1 THEN SignedNumber(root, 0, N)
                 ELSE IF IntOf(k) % 2 = 1 THEN SignedNumber(root, a.s, N)
                 ELSE IF a.s # 0 THEN Raise("ValueError", "Even root of negative is not defined")
                 ELSE SignedNumber(root, 0, N)

root_op(a, b, N) ==
    LET k == b.mag
    IN  IF k = Zero THEN Raise("ValueError", "Root degree must be non-zero")
        ELSE LET root == FPow(a.mag, FDiv(One, k))
             IN  IF N = 1 THEN SignedNumber(root, 0, N)
                 ELSE IF FMod2(k) = One THEN SignedNumber(root, a.s, N)
                 ELSE IF a.s # 0 THEN Raise("ValueError", "Even root of negative is not defined")
                 ELSE SignedNumber(root, 0, N)

\* Calculator.operations
OpNames == {"Add", "Sub", "Mul", "Div", "Pow", "Root"}

operations(name, a, b, N) ==
    CASE name = "Add"  -> add(a, b, N)
      [] name = "Sub"  -> sub(a, b, N)
      [] name = "Mul"  -> mult(a, b, N)
      [] name = "Div"  -> div(a, b, N)
      [] name = "Pow"  -> exp_op(a, b, N)
      [] name = "Root" -> root_op(a, b, N)

(***************************************************************************)
(* Text typed by the user.  A dialog text is a sequence of one-character   *)
(* strings; a magnitude text is one of MagTexts.                           *)
(***************************************************************************)
\* Longest text typed into the "New Sign" dialog.
MaxText == 2

Chars == {" ", "+", "-", "*"}

RECURSIVE SeqsUpTo(_)
SeqsUpTo(n) ==
    IF n = 0 THEN {<<>>}
    ELSE LET shorter == SeqsUpTo(n - 1)
         IN  shorter \cup {Append(t, c) : t \in {u \in shorter : Len(u) = n - 1}, c \in Chars}

DialogTexts == SeqsUpTo(MaxText)

Range(seq) == {seq[i] : i \in 1..Len(seq)}

\* str.strip(): leading and trailing whitespace removed
RECURSIVE LStrip(_)
LStrip(t) == IF t # <<>> /\ Head(t) = " " THEN LStrip(Tail(t)) ELSE t

RECURSIVE RStrip(_)
RStrip(t) ==
    IF t # <<>> /\ t[Len(t)] = " " THEN RStrip(SubSeq(t, 1, Len(t) - 1)) ELSE t

strip(t) == RStrip(LStrip(t))

MagTexts == {"0", "2", "-1", "x"}

\* float(text) on MagTexts
float(text) ==
    CASE text = "0"  -> [ok |-> TRUE, val |-> Zero]
      [] text = "2"  -> [ok |-> TRUE, val |-> [m |-> 1, e |-> 1]]
      [] text = "-1" -> [ok |-> TRUE, val |-> [m |-> -1, e |-> 0]]
      [] OTHER       -> Raise("ValueError", "could not convert string to float")

(***************************************************************************)
(* QComboBox: items, currentIndex (0-based) and the enabled flag.          *)
(***************************************************************************)
\* QComboBox.addItem on a non-empty box: the current index stays.
addItem(cb, symbol) == [cb EXCEPT !.items = Append(@, symbol)]

\* QComboBox.removeItem(index): when the current item is removed the
\* current index moves to the nearest remaining item.
removeItem(cb, index) ==
    LET n     == Len(cb.items)
        items == [i \in 1..(n - 1) |-> IF i <= index THEN cb.items[i] ELSE cb.items[i + 1]]
        cur   == IF cb.cur > index THEN cb.cur - 1
                 ELSE IF cb.cur = index THEN Min(n - 2, cb.cur)
                 ELSE cb.cur
    IN  [cb EXCEPT !.items = items, !.cur = cur]

\* Variant of update_ui: the flag inverted.
update_ui_inverted(symbols) == Len(symbols) = 1

\* Calculator.update_ui: the flag given to the three setEnabled calls
update_ui(symbols) == ~ (Len(symbols) = 1)

\* SignedNumber.__repr__: the sign prefix and the magnitude that "%.6g"
\* renders (the decimal digits are not expanded).
repr(x, symbols) ==
    IF Len(symbols) = 1 THEN <<x.mag>>
    ELSE <<symbols[x.s + 1], x.mag>>

(***************************************************************************)
(* The Calculator.                                                         *)
(***************************************************************************)
UiInit ==
    /\ sign_symbols = <<"+">>
    /\ a_sign = [items |-> <<"+">>, cur |-> 0, enabled |-> update_ui(<<"+">>)]
    /\ b_sign = [items |-> <<"+">>, cur |-> 0, enabled |-> update_ui(<<"+">>)]
    /\ remove_enabled = update_ui(<<"+">>)
    /\ result = <<>>
    /\ outcome = [req |-> "init", kind |-> "ok"]
    /\ alive = TRUE

Init ==
    /\ UiInit
    /\ call = [fn |-> "none"]
    /\ ret = [pending |-> TRUE]

\* app.sign_symbols.append, both addItem calls and update_ui
AppendSign(symbol) ==
    LET symbols == Append(sign_symbols, symbol)
    IN  /\ sign_symbols' = symbols
        /\ a_sign' = [addItem(a_sign, symbol) EXCEPT !.enabled = update_ui(symbols)]
        /\ b_sign' = [addItem(b_sign, symbol) EXCEPT !.enabled = update_ui(symbols)]
        /\ remove_enabled' = update_ui(symbols)

\* QInputDialog.getText returned (text, ok)
add_sign(text, ok) ==
    /\ alive
    /\ ~ok => text = <<>>
    /\ UNCHANGED <<result, call, ret>>
    /\ IF ok /\ text # <<>>
       THEN IF strip(text) = <<>>
            THEN \* text.strip()[0] raises IndexError outside any try block:
                 \* the slot's exception is not handled; depending on the
                 \* PyQt5 version the process aborts or goes on.
                 /\ outcome' = [req |-> "add_sign", kind |-> "uncaught",
                                msg |-> "IndexError: string index out of range"]
                 /\ alive' \in BOOLEAN
                 /\ UNCHANGED <<sign_symbols, a_sign, b_sign, remove_enabled>>
            ELSE LET symbol == strip(text)[1]
                 IN  IF symbol \in Range(sign_symbols)
                     THEN /\ outcome' = [req |-> "add_sign", kind |-> "information",
                                         msg |-> "Sign already exists."]
                          /\ UNCHANGED <<sign_symbols, a_sign, b_sign, remove_enabled, alive>>
                     ELSE /\ AppendSign(symbol)
                          /\ outcome' = [req |-> "add_sign", kind |-> "ok"]
                          /\ UNCHANGED alive
       ELSE /\ outcome' = [req |-> "add_sign", kind |-> "ignored"]
            /\ UNCHANGED <<sign_symbols, a_sign, b_sign, remove_enabled, alive>>

\* Variant of remove_sign: the last symbol popped whatever the length.
remove_sign_unguarded ==
    /\ alive
    /\ UNCHANGED <<result, alive, call, ret>>
    /\ LET symbols == SubSeq(sign_symbols, 1, Len(sign_symbols) - 1)
       IN  /\ sign_symbols' = symbols
           /\ a_sign' = [removeItem(a_sign, Len(a_sign.items) - 1)
                           EXCEPT !.enabled = update_ui(symbols)]
           /\ b_sign' = [removeItem(b_sign, Len(b_sign.items) - 1)
                           EXCEPT !.enabled = update_ui(symbols)]
           /\ remove_enabled' = update_ui(symbols)
           /\ outcome' = [req |-> "remove_sign", kind |-> "ok"]

remove_sign ==
    /\ alive
    /\ UNCHANGED <<result, alive, call, ret>>
    /\ IF Len(sign_symbols) > 1
       THEN LET symbols == SubSeq(sign_symbols, 1, Len(sign_symbols) - 1)
            IN  /\ sign_symbols' = symbols
                /\ a_sign' = [removeItem(a_sign, Len(a_sign.items) - 1)
                                EXCEPT !.enabled = update_ui(symbols)]
                /\ b_sign' = [removeItem(b_sign, Len(b_sign.items) - 1)
                                EXCEPT !.enabled = update_ui(symbols)]
                /\ remove_enabled' = update_ui(symbols)
                /\ outcome' = [req |-> "remove_sign", kind |-> "ok"]
       ELSE /\ outcome' = [req |-> "remove_sign", kind |-> "ignored"]
            /\ UNCHANGED <<sign_symbols, a_sign, b_sign, remove_enabled>>

\* The body of compute's try block: the label text, or the exception.
ComputeResult(a_text, b_text, a_index, b_index, op, symbols) ==
    LET N     == Len(symbols)
        a_val == float(a_text)
        b_val == float(b_text)
    IN  IF ~a_val.ok THEN a_val
        ELSE IF ~b_val.ok THEN b_val
        ELSE LET a == SignedNumber(a_val.val, a_index, N)
                 b == SignedNumber(b_val.val, b_index, N)
             IN  IF ~a.ok THEN a
                 ELSE IF ~b.ok THEN b
                 ELSE LET res == operations(op, a, b, N)
                      IN  IF ~res.ok THEN res
                          ELSE [ok |-> TRUE, text |-> repr(res, symbols)]

\* What compute passes to the two SignedNumber calls, once both texts have
\* parsed: a_sign.currentIndex(), b_sign.currentIndex() and the registry
\* size the constructor reads.
Handed(a_text, b_text) ==
    IF float(a_text).ok /\ float(b_text).ok
    THEN <<a_sign.cur, b_sign.cur, Len(sign_symbols)>>
    ELSE <<>>

compute(a_text, b_text, op) ==
    /\ alive
    /\ UNCHANGED <<sign_symbols, a_sign, b_sign, remove_enabled, alive, call, ret>>
    /\ LET r == ComputeResult(a_text, b_text, a_sign.cur, b_sign.cur, op, sign_symbols)
       IN  IF r.ok
           THEN /\ result' = r.text
                /\ outcome' = [req |-> "compute", kind |-> "ok",
                               handed |-> Handed(a_text, b_text)]
           ELSE /\ outcome' = [req |-> "compute", kind |-> "critical", msg |-> r.msg,
                               handed |-> Handed(a_text, b_text)]
                /\ UNCHANGED result

\* The user picks item i of an enabled sign combo box.
select_a(i) ==
    /\ alive
    /\ a_sign.enabled
    /\ i \in 0..(Len(a_sign.items) - 1)
    /\ a_sign' = [a_sign EXCEPT !.cur = i]
    /\ outcome' = [req |-> "select", kind |-> "ok"]
    /\ UNCHANGED <<sign_symbols, b_sign, remove_enabled, result, alive, call, ret>>

select_b(i) ==
    /\ alive
    /\ b_sign.enabled
    /\ i \in 0..(Len(b_sign.items) - 1)
    /\ b_sign' = [b_sign EXCEPT !.cur = i]
    /\ outcome' = [req |-> "select", kind |-> "ok"]
    /\ UNCHANGED <<sign_symbols, a_sign, remove_enabled, result, alive, call, ret>>

Next ==
    \/ \E text \in DialogTexts, ok \in BOOLEAN : add_sign(text, ok)
    \/ remove_sign
    \/ \E a_text \in MagTexts, b_text \in MagTexts, op \in OpNames : compute(a_text, b_text, op)
    \/ \E i \in 0..(Cardinality(Chars) - 1) : select_a(i)
    \/ \E i \in 0..(Cardinality(Chars) - 1) : select_b(i)

Spec == Init /\ [][Next]_vars

(***************************************************************************)
(* FnSpec: one application of SignedNumber or of an operation to inputs    *)
(* drawn from bounded sets.  The initial state holds the arguments, the    *)
(* one step applies the function.                                          *)
(***************************************************************************)
\* 0, 1, 2, 3, 5, 7, 8, 2.5, 3.5
Mags ==
    { Zero, One, [m |-> 1, e |-> 1], [m |-> 3, e |-> 0], [m |-> 5, e |-> 0],
      [m |-> 7, e |-> 0], [m |-> 1, e |-> 3], [m |-> 5, e |-> -1], [m |-> 7, e |-> -1] }

\* -1 and -2.5 as well
ArgMags == Mags \cup { [m |-> -1, e |-> 0], [m |-> -5, e |-> -1] }

Sizes == 1..MaxSigns

\* The SignedNumber values that exist under a registry of size N
Numbers(N) == {[ok |-> TRUE, mag |-> mag, s |-> s] : mag \in Mags, s \in 0..(N - 1)}

FnCalls ==
    {[fn |-> "construct", mag |-> mag, s |-> s, N |-> N] :
        mag \in ArgMags, s \in (-1)..(MaxSigns + 1), N \in Sizes}
    \cup UNION {[fn : OpNames \cup {"DivMul"}, a : Numbers(N), b : Numbers(N), N : {N}] :
                  N \in Sizes}
    \cup UNION {[fn : {"negate2"}, x : Numbers(N), N : {N}] : N \in Sizes \ {1}}

FnInit ==
    /\ UiInit
    /\ call \in FnCalls
    /\ ret = [pending |-> TRUE]

Pending == "pending" \in DOMAIN ret
Done == ~Pending

apply_construct ==
    /\ Pending
    /\ call.fn = "construct"
    /\ ret' = SignedNumber(call.mag, call.s, call.N)
    /\ UNCHANGED <<call, uiVars>>

apply_operation ==
    /\ Pending
    /\ call.fn \in OpNames
    /\ ret' = operations(call.fn, call.a, call.b, call.N)
    /\ UNCHANGED <<call, uiVars>>

\* div(mult(a, b), b)
apply_div_mul ==
    /\ Pending
    /\ call.fn = "DivMul"
    /\ ret' = LET p == mult(call.a, call.b, call.N)
              IN  IF p.ok THEN div(p, call.b, call.N) ELSE p
    /\ UNCHANGED <<call, uiVars>>

\* the negation of sub, applied twice
apply_negate2 ==
    /\ Pending
    /\ call.fn = "negate2"
    /\ ret' = LET n1 == negate(call.x, call.N)
              IN  IF n1.ok THEN negate(n1, call.N) ELSE n1
    /\ UNCHANGED <<call, uiVars>>

FnNext ==
    \/ apply_construct
    \/ apply_operation
    \/ apply_div_mul
    \/ apply_negate2

FnSpec == FnInit /\ [][FnNext]_vars

(***************************************************************************)
(* Properties of SignedNumber and the operations (FnSpec).                 *)
(***************************************************************************)
\* x < y, x = y on numbers, by value
NumLess(x, y) ==
    LET e == Min(x.e, y.e)
    IN  x.m * 2 ^ (x.e - e) < y.m * 2 ^ (y.e - e)

\* |x - y|
AbsDiff(x, y) == LET d == FSub(x, y) IN [m |-> Abs(d.m), e |-> d.e]

\* C2: construct(mag, s, N) fails exactly when mag < 0 or (N > 1 and not
\* 0 <= s < N); when it succeeds the result is {mag, 0} if N = 1, whatever
\* s was asked for, and {mag, s} if N > 1.
C2_Construct ==
    (call.fn = "construct" /\ Done) =>
        LET fails == call.mag.m < 0 \/ (call.N > 1 /\ ~(0 <= call.s /\ call.s < call.N))
        IN  /\ ret.ok = ~fails
            /\ ret.ok => /\ ret.mag = call.mag
                         /\ ret.s = IF call.N = 1 THEN 0 ELSE call.s

\* C2 witness: in unsigned mode a sign index outside [0, N) was asked for
\* and the construction succeeded with sign 0.
C2_Witness ==
    /\ call.fn = "construct" /\ Done
    /\ call.N = 1 /\ call.s = -1 /\ call.mag = [m |-> 5, e |-> 0]
    /\ ret.ok /\ ret.s = 0

\* C3: for N > 1, Add(a, b) is (a.mag + b.mag, a.s) when a.s = b.s; else its
\* magnitude is |a.mag - b.mag| with the sign of the operand of strictly
\* larger magnitude, a's sign on a tie.  With N = 2, Add({5,0},{3,1}) =
\* {2,0} and Add({3,0},{5,1}) = {2,1}.
C3_Add ==
    (call.fn = "Add" /\ Done /\ call.N > 1) =>
        LET a == call.a
            b == call.b
        IN  /\ ret.ok
            /\ a.s = b.s => ret.mag = FAdd(a.mag, b.mag) /\ ret.s = a.s
            /\ a.s # b.s =>
                 /\ ret.mag = AbsDiff(a.mag, b.mag)
                 /\ NumLess(b.mag, a.mag) => ret.s = a.s
                 /\ NumLess(a.mag, b.mag) => ret.s = b.s
                 /\ a.mag = b.mag => ret.s = a.s
            /\ (call.N = 2 /\ a.mag = [m |-> 5, e |-> 0] /\ a.s = 0
                  /\ b.mag = [m |-> 3, e |-> 0] /\ b.s = 1)
                 => ret.mag = [m |-> 1, e |-> 1] /\ ret.s = 0
            /\ (call.N = 2 /\ a.mag = [m |-> 3, e |-> 0] /\ a.s = 0
                  /\ b.mag = [m |-> 5, e |-> 0] /\ b.s = 1)
                 => ret.mag = [m |-> 1, e |-> 1] /\ ret.s = 1

\* C3 witness: Add({3,0},{5,1}) under N = 2 returned {2,1}.
C3_Witness ==
    /\ call.fn = "Add" /\ Done /\ call.N = 2
    /\ call.a.mag = [m |-> 3, e |-> 0] /\ call.a.s = 0
    /\ call.b.mag = [m |-> 5, e |-> 0] /\ call.b.s = 1
    /\ ret.ok /\ ret.mag = [m |-> 1, e |-> 1] /\ ret.s = 1

\* C4 as claimed: for every N >= 1 and b.mag # 0, Div(Mul(a, b), b) succeeds
\* with magnitude equal to a.mag and sign index equal to a.s.
C4_DivMulExact ==
    (call.fn = "DivMul" /\ Done /\ call.b.mag # Zero) =>
        ret.ok /\ ret.mag = call.a.mag /\ ret.s = call.a.s

\* |x - y| <= y * 2^(2 - Precision): x equals y up to the rounding of two
\* floating-point operations
WithinRounding(x, y) ==
    LET e  == Min(x.e, y.e)
        xi == x.m * 2 ^ (x.e - e)
        yi == y.m * 2 ^ (y.e - e)
    IN  Abs(xi - yi) * 2 ^ (Precision - 2) <= yi

\* C4 amended: for every N >= 1 and b.mag # 0, Div(Mul(a, b), b) succeeds,
\* its sign index equals a.s, and its magnitude equals a.mag up to
\* floating-point rounding (not always exactly).
C4_DivMulRounded ==
    (call.fn = "DivMul" /\ Done /\ call.b.mag # Zero) =>
        ret.ok /\ ret.s = call.a.s /\ WithinRounding(ret.mag, call.a.mag)

\* C4 witness: with three signs, a product was divided back by a factor of
\* non-zero sign; the sign came back and the magnitude came back rounded.
C4_Witness ==
    /\ call.fn = "DivMul" /\ Done /\ call.N = 3
    /\ call.a.s = 2 /\ call.b.s = 2
    /\ ret.ok /\ ret.s = 2 /\ ret.mag # call.a.mag

\* k is an odd integer
IsOddInteger(k) == k.e = 0 /\ k.m % 2 = 1

\* C5 as claimed: for N > 1 and k = b.mag # 0 the sign of Root(a, b) goes
\* by the parity of k cast to an integer: odd keeps a.s; even fails when
\* a.s # 0 and gives sign 0 when a.s = 0.
C5_RootIntParity ==
    (call.fn = "Root" /\ Done /\ call.N > 1 /\ call.b.mag # Zero) =>
        IF IntOf(call.b.mag) % 2 = 1
        THEN ret.ok /\ ret.s = call.a.s
        ELSE IF call.a.s # 0
             THEN ~ret.ok /\ ret.msg = "Even root of negative is not defined"
             ELSE ret.ok /\ ret.s = 0

\* C5 amended: for N > 1 and k = b.mag # 0 the sign of Root(a, b) goes by
\* whether k is an odd integer: if so the sign is a.s; if not (k an even
\* integer or not an integer at all) Root fails when a.s # 0 and gives
\* sign 0 when a.s = 0.
C5_RootOddInteger ==
    (call.fn = "Root" /\ Done /\ call.N > 1 /\ call.b.mag # Zero) =>
        IF IsOddInteger(call.b.mag)
        THEN ret.ok /\ ret.s = call.a.s
        ELSE IF call.a.s # 0
             THEN ~ret.ok /\ ret.msg = "Even root of negative is not defined"
             ELSE ret.ok /\ ret.s = 0

\* C5 witness: the root of degree 3.5 of a number of sign 1 was refused.
C5_Witness ==
    /\ call.fn = "Root" /\ Done /\ call.N = 2
    /\ call.b.mag = [m |-> 7, e |-> -1] /\ call.a.s = 1
    /\ ~ret.ok

\* The unsigned result of an operation on two magnitudes
Plain(op, x, y) ==
    CASE op = "Add"  -> FAdd(x, y)
      [] op = "Sub"  -> FSub(x, y)
      [] op = "Mul"  -> FMul(x, y)
      [] op = "Div"  -> FDiv(x, y)
      [] op = "Pow"  -> FPow(x, y)
      [] op = "Root" -> FPow(x, FDiv(One, y))

\* the documented failures: Div by zero and Root of degree zero
Documented(c) == c.fn \in {"Div", "Root"} /\ c.b.mag = Zero

\* C6 as claimed: with N = 1 each of the six operations, apart from Div by
\* zero and Root of degree zero, returns sign 0 and the plain unsigned
\* result, and fails for no other reason.
C6_UnsignedNeverFails ==
    (call.fn \in OpNames /\ Done /\ call.N = 1 /\ ~Documented(call)) =>
        ret.ok /\ ret.s = 0 /\ ret.mag = Plain(call.fn, call.a.mag, call.b.mag)

\* C6 amended: with N = 1 each of the six operations, apart from Div by
\* zero, Root of degree zero and Sub with a.mag < b.mag (which fails, the
\* difference being a negative magnitude), returns sign 0 and the plain
\* unsigned result.
C6_UnsignedExceptNegativeSub ==
    (call.fn \in OpNames /\ Done /\ call.N = 1 /\ ~Documented(call)) =>
        IF call.fn = "Sub" /\ NumLess(call.a.mag, call.b.mag)
        THEN ~ret.ok /\ ret.msg = "Magnitude must be >= 0"
        ELSE ret.ok /\ ret.s = 0 /\ ret.mag = Plain(call.fn, call.a.mag, call.b.mag)

\* C6 witness: in unsigned mode Sub(2, 3) was refused.
C6_Witness ==
    /\ call.fn = "Sub" /\ Done /\ call.N = 1
    /\ call.a.mag = [m |-> 1, e |-> 1] /\ call.b.mag = [m |-> 3, e |-> 0]
    /\ ~ret.ok

\* C7: Div(a, b) with b.mag = 0 fails with a divide-by-zero error for every
\* valid a and every N >= 1; it never returns a value.
C7_DivByZero ==
    (call.fn = "Div" /\ Done /\ call.b.mag = Zero) =>
        ~ret.ok /\ ret.exc = "ZeroDivisionError"

\* C7 witness: in unsigned mode 7 / 0 was refused.
C7_Witness ==
    /\ call.fn = "Div" /\ Done /\ call.N = 1
    /\ call.a.mag = [m |-> 7, e |-> 0] /\ call.b.mag = Zero
    /\ ~ret.ok

\* Add as C3 words it, for operands of different or equal sign
ClaimedAdd(a, b) ==
    IF a.s = b.s THEN [mag |-> FAdd(a.mag, b.mag), s |-> a.s]
    ELSE [mag |-> AbsDiff(a.mag, b.mag),
          s   |-> IF NumLess(a.mag, b.mag) THEN b.s ELSE a.s]

\* C9: for N > 1, Sub(a, b) = Add(a, negate(b)) with negate(x) = (x.mag,
\* (x.s + 1) mod N); negate(negate(x)) = x when N = 2, and for N > 2 the
\* sign index of negate(negate(x)) differs from x.s.
C9_SubNegate ==
    /\ (call.fn = "Sub" /\ Done /\ call.N > 1) =>
         LET nb == [mag |-> call.b.mag, s |-> (call.b.s + 1) % call.N]
             r  == ClaimedAdd(call.a, nb)
         IN  ret.ok /\ ret.mag = r.mag /\ ret.s = r.s
    /\ (call.fn = "negate2" /\ Done) =>
         /\ ret.ok /\ ret.mag = call.x.mag
         /\ call.N = 2 => ret.s = call.x.s
         /\ call.N > 2 => ret.s # call.x.s

\* C9 witness: with three signs, negating twice moved sign 2 to sign 1.
C9_Witness ==
    /\ call.fn = "negate2" /\ Done /\ call.N = 3
    /\ call.x.s = 2 /\ ret.ok /\ ret.s = 1

(***************************************************************************)
(* Properties of the Calculator (Spec).                                    *)
(***************************************************************************)
Distinct(seq) == \A i, j \in 1..Len(seq) : i # j => seq[i] # seq[j]

RegistryOk == Len(sign_symbols) >= 1 /\ Distinct(sign_symbols)

\* What one request does to the registry: an accepted add appends one
\* symbol, an effective remove drops the last one, anything else leaves it.
RegistryStep ==
    LET n == Len(sign_symbols)
    IN  IF outcome'.req = "add_sign" /\ outcome'.kind = "ok"
        THEN /\ Len(sign_symbols') = n + 1
             /\ SubSeq(sign_symbols', 1, n) = sign_symbols
        ELSE IF outcome'.req = "remove_sign" /\ outcome'.kind = "ok"
        THEN /\ n >= 2
             /\ sign_symbols' = SubSeq(sign_symbols, 1, n - 1)
        ELSE sign_symbols' = sign_symbols

\* C1: from ['+'], after any sequence of addSign and removeLastSign requests
\* the registry has length >= 1 and pairwise distinct entries; an accepted
\* add appends exactly one entry and an effective remove drops exactly the
\* last one.
C1_Registry == [](RegistryOk) /\ [][RegistryStep]_vars

\* C1 witness: a duplicate was rejected while the registry held three
\* symbols.
C1_Witness ==
    /\ outcome.req = "add_sign" /\ outcome.kind = "information"
    /\ Len(sign_symbols) = 3

\* A request that ended in an error or a rejection
Rejected(o) == o.kind \in {"critical", "information", "ignored", "uncaught"}

\* C8: every request that ends in an error or a rejection is caught and
\* reported at that request, leaves the registry as it was and the system
\* ready for the next request; a successful compute leaves the registry
\* unchanged too.
C8_ErrorsContained ==
    [][ /\ Rejected(outcome') =>
             /\ sign_symbols' = sign_symbols
             /\ outcome'.kind # "uncaught"
             /\ alive'
        /\ outcome'.req = "compute" => sign_symbols' = sign_symbols ]_vars

\* C10: both sign selectors hold the registry's symbols in the registry's
\* order, the remove button is enabled iff the registry holds more than one
\* symbol, and the sign indices a compute hands to SignedNumber are in
\* [0, N) for the registry size N of that compute.
C10_Selectors ==
    LET N == Len(sign_symbols)
    IN  /\ a_sign.items = sign_symbols
        /\ b_sign.items = sign_symbols
        /\ remove_enabled <=> N > 1
        /\ a_sign.cur \in 0..(N - 1)
        /\ b_sign.cur \in 0..(N - 1)
        /\ (outcome.req = "compute" /\ outcome.handed # <<>>) =>
             /\ outcome.handed[3] = N
             /\ outcome.handed[1] \in 0..(N - 1)
             /\ outcome.handed[2] \in 0..(N - 1)

\* C10 witness: a compute was handed sign index 2 for A and 1 for B under
\* a registry of three symbols.
C10_Witness ==
    /\ outcome.req = "compute" /\ outcome.kind = "ok"
    /\ outcome.handed = <<2, 1, 3>>

====
